---- MODULE Spec2Model ----
(***************************************************************************)
(* gmail-mbox-analyzer: the `index` command (src/main.rs) that rebuilds    *)
(* the sqlite store from an mbox archive, and the `report` command         *)
(* (src/report.rs) that serves faceted size analytics from it.             *)
(*                                                                         *)
(* Strings the code inspects character by character (the X-Gmail-Labels    *)
(* header, from_address, query strings) are sequences of chunks; Concat    *)
(* joins the chunks into the string the database stores or compares.       *)
(***************************************************************************)
EXTENDS Integers, Sequences, FiniteSets, TLC

VARIABLES
    mail,        \* committed rows of table mail; the index is the rowid
    labels,      \* committed rows of table labels: set of [mail_rowid, label]
    txActive,    \* the indexer's connection has an open transaction
    txMail,      \* table mail as the indexer's connection sees it
    txLabels,    \* table labels as the indexer's connection sees it
    archive,     \* the mbox entries of the running index command
    pos,         \* position of mf.iter() in the archive
    pending,     \* labels of the current message not yet inserted
    pc,          \* position of IndexCommand::run
    error,       \* why the last run failed
    prev,        \* history: committed content when the run started
    seen,        \* content a concurrent read-only connection observed
    lastRun,     \* outcome of the last finished index command
    svc,         \* state of the report process
    total_size,  \* AppState.total_size
    poisoned,    \* AppState.conn is a poisoned Mutex
    lockHolder,  \* request holding AppState.conn
    reqPc,       \* position of each in-flight index() handler
    reqFilter,   \* the Filters of each request
    view,        \* the view-model (tera context) each request built
    cFilter,     \* codec: the Filters handed to Filters::to_url
    cUrl,        \* codec: the link to_url returned
    cDecoded,    \* codec: the Filters web::Query extracts from the link
    cPc          \* codec: position of the round trip

vars == <<mail, labels, txActive, txMail, txLabels, archive, pos, pending, pc,
          error, prev, seen, lastRun, svc, total_size, poisoned, lockHolder,
          reqPc, reqFilter, view, cFilter, cUrl, cDecoded, cPc>>

indexVars == <<mail, labels, txActive, txMail, txLabels, archive, pos,
               pending, pc, error, prev, seen, lastRun>>
reportVars == <<svc, total_size, poisoned, lockHolder, reqPc, reqFilter, view>>
codecVars == <<cFilter, cUrl, cDecoded, cPc>>

None == "<none>"

\* Option<T>: Nothing, or Some(x).
Nothing == <<>>
Some(x) == <<x>>
Unwrap(o) == o[1]
UnwrapOr(o, d) == IF o = Nothing THEN d ELSE o[1]

\* Bounds of the model.
MaxEntries == 2
MaxFilterChars == 2

-----------------------------------------------------------------------------
\* Helpers on sequences.

RECURSIVE Concat(_)
Concat(chunks) ==
    IF chunks = <<>> THEN "" ELSE Head(chunks) \o Concat(Tail(chunks))

RECURSIVE SetSum(_, _)
SetSum(S, f) ==
    IF S = {} THEN 0
    ELSE LET x == CHOOSE y \in S : TRUE IN f[x] + SetSum(S \ {x}, f)

Min(a, b) == IF a < b THEN a ELSE b

-----------------------------------------------------------------------------
\* The mbox entries the archives of the model are made of.

Entry(parsable, size, from, date, raw_date, subject, labelHdr) ==
    [parsable |-> parsable, size |-> size, from |-> from, date |-> date,
     raw_date |-> raw_date, subject |-> subject, labelHdr |-> labelHdr]

EInbox == Entry(TRUE, 1, Some(<<"a", "@", "x.com">>), Nothing, Nothing, Nothing,
                Some(<<" ", "Inbox", "\r", "\n">>))
EBoth == Entry(TRUE, 2, Some(<<"b", "@", "x.com">>), Some(1704067200),
               Some("Mon, 01 Jan 2024 00:00:00 +0000"), Some("hello"),
               Some(<<" ", "Inbox", ",", "\r", "\n", " ", "Important">>))
ENoLabel == Entry(TRUE, 3, Some(<<"c", "@", "y.com">>), Some(1704067199),
                  Some("Sun, 31 Dec 2023 23:59:59 +0000"), Some("bye"),
                  Nothing)
EDup == Entry(TRUE, 4, Nothing, Nothing, Some("garbage"), Nothing,
              Some(<<"A", ",", " ", "A">>))
EBad == Entry(FALSE, 5, Nothing, Nothing, Nothing, Nothing, Nothing)

Entries == {EInbox, EBoth, ENoLabel, EDup, EBad}

Archives == UNION {[1..n -> Entries] : n \in 0..MaxEntries}

-----------------------------------------------------------------------------
\* Message normalisation (IndexCommand::run, the body of the loop).

Whitespace == {" ", "\t", "\n", "\r"}
LineBreaks == {"\n", "\r"}

\* str::split(','): the pieces between the commas, empty pieces included.
RECURSIVE SplitComma(_, _)
SplitComma(chunks, piece) ==
    IF chunks = <<>> THEN <<piece>>
    ELSE IF Head(chunks) = "," THEN <<piece>> \o SplitComma(Tail(chunks), <<>>)
    ELSE SplitComma(Tail(chunks), Append(piece, Head(chunks)))

\* str::trim(): whitespace removed at both ends.
RECURSIVE TrimStart(_)
TrimStart(chunks) ==
    IF chunks # <<>> /\ Head(chunks) \in Whitespace
    THEN TrimStart(Tail(chunks)) ELSE chunks

RECURSIVE TrimEnd(_)
TrimEnd(chunks) ==
    IF chunks # <<>> /\ chunks[Len(chunks)] \in Whitespace
    THEN TrimEnd(SubSeq(chunks, 1, Len(chunks) - 1)) ELSE chunks

Trim(chunks) == TrimEnd(TrimStart(chunks))

\* str::replace(['\n', '\r'], "")
RECURSIVE StripLineBreaks(_)
StripLineBreaks(chunks) ==
    IF chunks = <<>> THEN <<>>
    ELSE IF Head(chunks) \in LineBreaks THEN StripLineBreaks(Tail(chunks))
    ELSE <<Head(chunks)>> \o StripLineBreaks(Tail(chunks))

\* The labels of a message: one per piece of X-Gmail-Labels, in order and
\* not deduplicated, or the sentinel when the header is absent.
ParseLabels(hdr) ==
    IF hdr = Nothing THEN <<"Unlabeled">>
    ELSE LET pieces == SplitComma(Unwrap(hdr), <<>>)
         IN [i \in 1..Len(pieces) |-> Concat(StripLineBreaks(Trim(pieces[i])))]

\* The row inserted by insert_mail for a parsable entry.
MailRow(e) ==
    [size |-> e.size,
     from_address |-> UnwrapOr(e.from, <<"(unknown sender)">>),
     date |-> UnwrapOr(e.date, 0),
     raw_date |-> e.raw_date,
     subject |-> UnwrapOr(e.subject, "(no subject)")]

LabelRow(rowid, label) == [mail_rowid |-> rowid, label |-> label]

-----------------------------------------------------------------------------
\* IndexCommand::run, one action per statement that touches the store.

Running == {"delete_mail", "delete_labels", "begin", "loop", "labels", "commit"}

\* Open the mbox and the database, migrate, prepare the statements.  The
\* store is rebuilt only while no report process serves it.
IndexStart ==
    /\ pc = "idle"
    /\ svc = "down"
    /\ \E a \in Archives : archive' = a
    /\ pc' = "delete_mail"
    /\ pos' = 1
    /\ prev' = Some(<<mail, labels>>)
    /\ seen' = Nothing
    /\ error' = None
    /\ UNCHANGED <<mail, labels, txActive, txMail, txLabels, pending, lastRun>>
    /\ UNCHANGED <<reportVars, codecVars>>

\* conn.execute("DELETE FROM mail") in autocommit mode.
IndexDeleteMail ==
    /\ pc = "delete_mail"
    /\ mail' = <<>>
    /\ pc' = "delete_labels"
    /\ UNCHANGED <<labels, txActive, txMail, txLabels, archive, pos, pending,
                   error, prev, seen, lastRun>>
    /\ UNCHANGED <<reportVars, codecVars>>

\* conn.execute("DELETE FROM labels") in autocommit mode.
IndexDeleteLabels ==
    /\ pc = "delete_labels"
    /\ labels' = {}
    /\ pc' = "begin"
    /\ UNCHANGED <<mail, txActive, txMail, txLabels, archive, pos, pending,
                   error, prev, seen, lastRun>>
    /\ UNCHANGED <<reportVars, codecVars>>

\* conn.execute("BEGIN")
IndexBegin ==
    /\ pc = "begin"
    /\ txActive' = TRUE
    /\ txMail' = mail
    /\ txLabels' = labels
    /\ pc' = "loop"
    /\ UNCHANGED <<mail, labels, archive, pos, pending, error, prev, seen,
                   lastRun>>
    /\ UNCHANGED <<reportVars, codecVars>>

\* One turn of `for mail in mf.iter()` up to insert_mail.execute.
IndexNextMail ==
    /\ pc = "loop"
    /\ IF pos > Len(archive)
       THEN /\ pc' = "commit"
            /\ UNCHANGED <<txMail, pending, pos>>
       ELSE LET e == archive[pos] IN
            IF ~e.parsable
            THEN /\ pos' = pos + 1
                 /\ UNCHANGED <<txMail, pending, pc>>
            ELSE /\ txMail' = Append(txMail, MailRow(e))
                 /\ pending' = ParseLabels(e.labelHdr)
                 /\ pc' = "labels"
                 /\ UNCHANGED pos
    /\ UNCHANGED <<mail, labels, txActive, txLabels, archive, error, prev,
                   seen, lastRun>>
    /\ UNCHANGED <<reportVars, codecVars>>

\* The outcome of INSERT INTO labels under PRIMARY KEY (mail_rowid, label).
InsertLabel(table, row) ==
    IF row \in table THEN [ok |-> FALSE, table |-> table]
    ELSE [ok |-> TRUE, table |-> table \cup {row}]

\* One turn of `for label in labels`: insert_label.execute(...)?
IndexInsertLabel ==
    /\ pc = "labels"
    /\ IF pending = <<>>
       THEN /\ pc' = "loop"
            /\ pos' = pos + 1
            /\ UNCHANGED <<txActive, txMail, txLabels, pending, error, lastRun>>
       ELSE LET mail_rowid == Len(txMail)
                r == InsertLabel(txLabels, LabelRow(mail_rowid, Head(pending)))
            IN IF r.ok
               THEN /\ txLabels' = r.table
                    /\ pending' = Tail(pending)
                    /\ UNCHANGED <<txActive, txMail, pc, pos, error, lastRun>>
               ELSE \* `?` returns the error; dropping conn rolls back.
                    /\ pc' = "failed"
                    /\ error' = "constraint"
                    /\ lastRun' = "failed"
                    /\ txActive' = FALSE
                    /\ txMail' = <<>>
                    /\ txLabels' = {}
                    /\ pending' = <<>>
                    /\ UNCHANGED pos
    /\ UNCHANGED <<mail, labels, archive, prev, seen>>
    /\ UNCHANGED <<reportVars, codecVars>>

\* conn.execute("COMMIT")
IndexCommit ==
    /\ pc = "commit"
    /\ mail' = txMail
    /\ labels' = txLabels
    /\ txActive' = FALSE
    /\ txMail' = <<>>
    /\ txLabels' = {}
    /\ pc' = "done"
    /\ lastRun' = "ok"
    /\ UNCHANGED <<archive, pos, pending, error, prev, seen>>
    /\ UNCHANGED <<reportVars, codecVars>>

\* The process stops, or a statement returns an I/O error, before COMMIT:
\* the open transaction, if any, is rolled back.
IndexCrash ==
    /\ pc \in Running
    /\ pc' = "failed"
    /\ error' = "stopped"
    /\ lastRun' = "failed"
    /\ txActive' = FALSE
    /\ txMail' = <<>>
    /\ txLabels' = {}
    /\ pending' = <<>>
    /\ UNCHANGED <<mail, labels, archive, pos, prev, seen>>
    /\ UNCHANGED <<reportVars, codecVars>>

\* main returns.
IndexExit ==
    /\ pc \in {"done", "failed"}
    /\ pc' = "idle"
    /\ archive' = <<>>
    /\ pos' = 0
    /\ prev' = Nothing
    /\ seen' = Nothing
    /\ error' = None
    /\ UNCHANGED <<mail, labels, txActive, txMail, txLabels, pending, lastRun>>
    /\ UNCHANGED <<reportVars, codecVars>>

\* Another connection reads both tables while the index command runs: it
\* sees the committed content.
ReaderRead ==
    /\ pc \in Running \cup {"done", "failed"}
    /\ seen' = Some(<<mail, labels>>)
    /\ UNCHANGED <<mail, labels, txActive, txMail, txLabels, archive, pos,
                   pending, pc, error, prev, lastRun>>
    /\ UNCHANGED <<reportVars, codecVars>>

-----------------------------------------------------------------------------
\* The SQL the report command runs, evaluated on the committed tables.

TopLimit == 30

Filters(label, year, domain, address) ==
    [label |-> label, year |-> year, domain |-> domain, address |-> address]

NoFilter == Filters(Nothing, Nothing, Nothing, Nothing)

\* Filters::has_any
HasAny(f) ==
    \/ f.label # Nothing
    \/ f.year # Nothing
    \/ f.domain # Nothing
    \/ f.address # Nothing

LabelColumn == "labels.label"
YearColumn == "strftime('%Y', datetime(date, 'unixepoch'))"
DomainColumn == "substr(from_address, instr(from_address, '@') + 1)"
AddressColumn == "from_address"

\* add_clause of Filters::clause
AddClause(words, column, value) ==
    IF value # Nothing
    THEN words \o <<IF words = <<>> THEN "WHERE" ELSE "AND">>
               \o <<column, "=", "?">>
    ELSE words

\* Filters::clause: the words of the JOIN / WHERE text.
Clause(f) ==
    LET w0 == IF f.label # Nothing
              THEN <<"JOIN", "labels", "ON", "labels.mail_rowid", "=",
                     "mail._rowid_">>
              ELSE <<>>
        w1 == AddClause(w0, LabelColumn, f.label)
        w2 == AddClause(w1, YearColumn, f.year)
        w3 == AddClause(w2, DomainColumn, f.domain)
    IN AddClause(w3, AddressColumn, f.address)

\* add_param of Filters::params
AddParam(params, value) ==
    IF value # Nothing THEN Append(params, Unwrap(value)) ELSE params

\* Filters::params: the bound values, in the order of the placeholders.
Params(f) ==
    AddParam(AddParam(AddParam(AddParam(<<>>, f.label), f.year), f.domain),
             f.address)

\* UTC calendar year of a unix timestamp: strftime('%Y', datetime(t, 'unixepoch')).
IsLeap(y) == (y % 4 = 0 /\ y % 100 # 0) \/ y % 400 = 0
DaysIn(y) == IF IsLeap(y) THEN 366 ELSE 365

RECURSIVE YearFrom(_, _)
YearFrom(days, y) ==
    IF days < DaysIn(y) THEN y ELSE YearFrom(days - DaysIn(y), y + 1)

YearOf(t) == ToString(YearFrom(t \div 86400, 1970))

\* instr(from_address, '@'): position of the first '@', 0 when there is none.
RECURSIVE Instr(_, _, _)
Instr(chunks, c, i) ==
    IF i > Len(chunks) THEN 0
    ELSE IF chunks[i] = c THEN i ELSE Instr(chunks, c, i + 1)

\* substr(from_address, instr(from_address, '@') + 1)
DomainOf(from_address) ==
    Concat(SubSeq(from_address, Instr(from_address, "@", 1) + 1,
                  Len(from_address)))

\* The rows of `mail`, alone or joined with `labels` on the rowid.
MailRows(joined) ==
    IF joined
    THEN {[rowid |-> l.mail_rowid, label |-> Some(l.label)] :
            l \in {x \in labels : x.mail_rowid \in 1..Len(mail)}}
    ELSE {[rowid |-> i, label |-> Nothing] : i \in 1..Len(mail)}

ColumnValue(row, column) ==
    CASE column = LabelColumn -> UnwrapOr(row.label, None)
      [] column = YearColumn -> YearOf(mail[row.rowid].date)
      [] column = DomainColumn -> DomainOf(mail[row.rowid].from_address)
      [] column = AddressColumn -> Concat(mail[row.rowid].from_address)

\* The columns compared with a placeholder, in order.
RECURSIVE Conds(_)
Conds(words) ==
    IF Len(words) < 3 THEN <<>>
    ELSE IF words[2] = "=" /\ words[3] = "?"
         THEN <<words[1]>> \o Conds(SubSeq(words, 4, Len(words)))
         ELSE Conds(Tail(words))

ClauseJoins(words) == words # <<>> /\ words[1] = "JOIN"

\* The clause parses after `FROM mail` (or after a join already written).
ValidClause(words) ==
    LET n == Len(words)
        body == IF ClauseJoins(words) THEN 6 ELSE 0
    IN /\ (n - body) % 4 = 0
       /\ \A i \in 1..((n - body) \div 4) :
            /\ words[body + 4 * i - 3] =
                 (IF body = 0 /\ i = 1 THEN "WHERE" ELSE "AND")
            /\ words[body + 4 * i - 2] \in
                 {LabelColumn, YearColumn, DomainColumn, AddressColumn}
            /\ words[body + 4 * i - 1] = "="
            /\ words[body + 4 * i] = "?"
       /\ \A i \in 1..n : words[i] = LabelColumn => ClauseJoins(words)

\* prepare + bind succeed: valid text and one parameter per placeholder.
QueryOK(words, params) ==
    ValidClause(words) /\ Len(Conds(words)) = Len(params)

\* Select with the condition on labels.label left out of the ON clause.
SelectAnyLabel(words, params, joined) ==
    LET conds == Conds(words) IN
    {row \in MailRows(joined \/ ClauseJoins(words)) :
        \A i \in 1..Len(conds) :
            conds[i] # LabelColumn => ColumnValue(row, conds[i]) = params[i]}

\* The rows of `FROM mail {clause}` (joined: labels is already in FROM).
Select(words, params, joined) ==
    LET conds == Conds(words) IN
    {row \in MailRows(joined \/ ClauseJoins(words)) :
        \A i \in 1..Len(conds) : ColumnValue(row, conds[i]) = params[i]}

\* SUM(size): NULL (Nothing) over no rows.
SumSize(rows) ==
    IF rows = {} THEN Nothing
    ELSE Some(SetSum(rows, [row \in rows |-> mail[row.rowid].size]))

\* GROUP BY column with sum(size) as total_size.
GroupBy(rows, column) ==
    {[key |-> k,
      size |-> Unwrap(SumSize({row \in rows : ColumnValue(row, column) = k}))] :
        k \in {ColumnValue(row, column) : row \in rows}}

\* ORDER BY total_size DESC: SQL leaves the order of equal keys open.
OrderBySizeDesc(S) ==
    {s \in [1..Cardinality(S) -> S] :
        /\ \A i, j \in 1..Cardinality(S) : i # j => s[i] # s[j]
        /\ \A i, j \in 1..Cardinality(S) : i < j => s[i].size >= s[j].size}

\* LIMIT n
Limit(s, n) == SubSeq(s, 1, Min(n, Len(s)))

\* The row of top_mail for one row of the query.
TopMailRow(row) ==
    [from |-> Concat(mail[row.rowid].from_address),
     size |-> mail[row.rowid].size,
     subject |-> mail[row.rowid].subject,
     raw_date |-> mail[row.rowid].raw_date]

TopMailOrders(rows) ==
    {[i \in 1..Len(s) |-> TopMailRow(s[i].row)] :
        s \in OrderBySizeDesc({[row |-> row, size |-> mail[row.rowid].size] :
                                 row \in rows})}

\* active_filters: the keys of the present constraints, in field order.
ActiveFilters(f) == Params(f)

\* The views index() can build once filtered_size is known.
Views(f, filtered_size) ==
    LET words == Clause(f)
        params == Params(f)
        byLabel == IF f.label = Nothing
                   THEN OrderBySizeDesc(GroupBy(Select(words, params, TRUE),
                                                LabelColumn))
                   ELSE {<<>>}
        byYear == IF f.year = Nothing
                  THEN OrderBySizeDesc(GroupBy(Select(words, params, FALSE),
                                               YearColumn))
                  ELSE {<<>>}
        byDomain == IF f.domain = Nothing
                    THEN OrderBySizeDesc(GroupBy(Select(words, params, FALSE),
                                                 DomainColumn))
                    ELSE {<<>>}
        byAddress == IF f.address = Nothing
                     THEN OrderBySizeDesc(GroupBy(Select(words, params, FALSE),
                                                  AddressColumn))
                     ELSE {<<>>}
        topMail == TopMailOrders(Select(words, params, FALSE))
    IN {[filtered_size |-> filtered_size,
         total_size |-> total_size,
         active_filters |-> ActiveFilters(f),
         by_label |-> bl,
         by_year |-> by,
         by_domain |-> Limit(bd, TopLimit),
         by_address |-> Limit(ba, TopLimit),
         top_mail |-> Limit(tm, TopLimit)] :
          bl \in byLabel, by \in byYear, bd \in byDomain, ba \in byAddress,
          tm \in topMail}

-----------------------------------------------------------------------------
\* ReportCommand::run_impl and the index() handler.

Requests == {"r1", "r2"}

FilterLabels == {"Inbox", "Important"}
FilterYears == {"2024"}
FilterDomains == {"x.com"}
FilterAddresses == {"a@x.com"}

Opt(S) == {Nothing} \cup {Some(x) : x \in S}

RequestFilters ==
    {Filters(l, y, d, a) : l \in Opt(FilterLabels), y \in Opt(FilterYears),
                           d \in Opt(FilterDomains), a \in Opt(FilterAddresses)}

\* Open the store read-only and precompute SELECT SUM(size) FROM mail as u64;
\* a missing table or a NULL sum is an error and run_impl returns it.  The
\* service is started on a store no index command is writing.
ReportStart ==
    /\ svc = "down"
    /\ pc = "idle"
    /\ LET sum == SumSize(MailRows(FALSE)) IN
       IF lastRun = None \/ sum = Nothing
       THEN /\ svc' = "start_failed"
            /\ UNCHANGED total_size
       ELSE /\ svc' = "up"
            /\ total_size' = Unwrap(sum)
    /\ UNCHANGED <<poisoned, lockHolder, reqPc, reqFilter, view>>
    /\ UNCHANGED <<indexVars, codecVars>>

\* The report process ends.
ReportExit ==
    /\ svc \in {"up", "start_failed"}
    /\ \A r \in Requests : reqPc[r] = "idle"
    /\ svc' = "down"
    /\ total_size' = 0
    /\ poisoned' = FALSE
    /\ UNCHANGED <<lockHolder, reqPc, reqFilter, view>>
    /\ UNCHANGED <<indexVars, codecVars>>

\* A request arrives: query.into_inner() and the active_filters.
ReqArrive(r) ==
    /\ svc = "up"
    /\ reqPc[r] = "idle"
    /\ \E f \in RequestFilters : reqFilter' = [reqFilter EXCEPT ![r] = f]
    /\ reqPc' = [reqPc EXCEPT ![r] = "lock"]
    /\ UNCHANGED <<svc, total_size, poisoned, lockHolder, view>>
    /\ UNCHANGED <<indexVars, codecVars>>

\* data.conn.lock().unwrap(): blocks while another request holds the guard,
\* panics when the mutex is poisoned.
ReqLock(r) ==
    /\ reqPc[r] = "lock"
    /\ lockHolder = None
    /\ IF poisoned
       THEN /\ reqPc' = [reqPc EXCEPT ![r] = "panicked"]
            /\ UNCHANGED lockHolder
       ELSE /\ reqPc' = [reqPc EXCEPT ![r] = "query"]
            /\ lockHolder' = r
    /\ UNCHANGED <<svc, total_size, poisoned, reqFilter, view>>
    /\ UNCHANGED <<indexVars, codecVars>>

\* filtered_size: the precomputed total, or SUM(size) read as u64 and
\* unwrapped.
FilteredSize(f) ==
    IF HasAny(f)
    THEN IF QueryOK(Clause(f), Params(f))
         THEN SumSize(Select(Clause(f), Params(f), FALSE))
         ELSE Nothing
    ELSE Some(total_size)

\* The queries of index() under the guard: a panic unwinds through the
\* guard and poisons the mutex.
ReqQuery(r) ==
    /\ reqPc[r] = "query"
    /\ LET f == reqFilter[r]
           filtered_size == FilteredSize(f)
       IN IF filtered_size = Nothing \/ ~QueryOK(Clause(f), Params(f))
          THEN /\ reqPc' = [reqPc EXCEPT ![r] = "panicked"]
               /\ poisoned' = TRUE
               /\ lockHolder' = None
               /\ UNCHANGED view
          ELSE /\ \E v \in Views(f, Unwrap(filtered_size)) :
                    view' = [view EXCEPT ![r] = Some(v)]
               /\ reqPc' = [reqPc EXCEPT ![r] = "respond"]
               /\ UNCHANGED <<poisoned, lockHolder>>
    /\ UNCHANGED <<svc, total_size, reqFilter>>
    /\ UNCHANGED <<indexVars, codecVars>>

\* HttpResponse::Ok().body(render): the handler returns, the guard drops.
ReqRespond(r) ==
    /\ reqPc[r] = "respond"
    /\ reqPc' = [reqPc EXCEPT ![r] = "idle"]
    /\ lockHolder' = None
    /\ view' = [view EXCEPT ![r] = Nothing]
    /\ reqFilter' = [reqFilter EXCEPT ![r] = NoFilter]
    /\ UNCHANGED <<svc, total_size, poisoned>>
    /\ UNCHANGED <<indexVars, codecVars>>

\* The client of a panicked request sees its connection closed.
ReqAborted(r) ==
    /\ reqPc[r] = "panicked"
    /\ reqPc' = [reqPc EXCEPT ![r] = "idle"]
    /\ reqFilter' = [reqFilter EXCEPT ![r] = NoFilter]
    /\ UNCHANGED <<svc, total_size, poisoned, lockHolder, view>>
    /\ UNCHANGED <<indexVars, codecVars>>

-----------------------------------------------------------------------------
\* Filters::to_url and its inverse, the web::Query<Filters> extractor.

\* The characters of the filter values: one unreserved character and the
\* characters that have a meaning in application/x-www-form-urlencoded.
CodecChars == {"a", " ", "&", "=", "+", "%"}

\* byte_serialize that escapes nothing.
ByteSerializeRaw(c) == <<c>>

\* form_urlencoded::byte_serialize of one character.
ByteSerialize(c) ==
    CASE c = " " -> <<"+">>
      [] c = "&" -> <<"%", "2", "6">>
      [] c = "=" -> <<"%", "3", "D">>
      [] c = "+" -> <<"%", "2", "B">>
      [] c = "%" -> <<"%", "2", "5">>
      [] OTHER -> <<c>>

RECURSIVE Serialize(_)
Serialize(chunks) ==
    IF chunks = <<>> THEN <<>>
    ELSE ByteSerialize(Head(chunks)) \o Serialize(Tail(chunks))

\* qp.append_pair(name, value) when the field is present; query is the text
\* after the '?'.
AppendPair(query, name, value) ==
    IF value = Nothing THEN query
    ELSE query \o (IF query = <<>> THEN <<>> ELSE <<"&">>)
               \o <<name, "=">> \o Serialize(Unwrap(value))

\* Filters::to_url: "fake:/" + '?' + the pairs, without the "fake:" prefix.
ToUrl(f) ==
    LET q1 == AppendPair(<<>>, "label", f.label)
        q2 == AppendPair(q1, "year", f.year)
        q3 == AppendPair(q2, "domain", f.domain)
        q4 == AppendPair(q3, "address", f.address)
    IN <<"/", "?">> \o q4

\* The byte of a %XX escape.
HexByte(h) ==
    CASE h = <<"2", "6">> -> "&"
      [] h = <<"3", "D">> -> "="
      [] h = <<"2", "B">> -> "+"
      [] h = <<"2", "5">> -> "%"
      [] OTHER -> None

\* form_urlencoded decoding: '+' is a space, %XX a byte, a stray '%' itself.
RECURSIVE Deserialize(_)
Deserialize(chunks) ==
    IF chunks = <<>> THEN <<>>
    ELSE IF Head(chunks) = "+" THEN <<" ">> \o Deserialize(Tail(chunks))
    ELSE IF /\ Head(chunks) = "%"
            /\ Len(chunks) >= 3
            /\ HexByte(SubSeq(chunks, 2, 3)) # None
         THEN <<HexByte(SubSeq(chunks, 2, 3))>>
                  \o Deserialize(SubSeq(chunks, 4, Len(chunks)))
    ELSE <<Head(chunks)>> \o Deserialize(Tail(chunks))

RECURSIVE SplitAmp(_, _)
SplitAmp(chunks, piece) ==
    IF chunks = <<>> THEN <<piece>>
    ELSE IF Head(chunks) = "&" THEN <<piece>> \o SplitAmp(Tail(chunks), <<>>)
    ELSE SplitAmp(Tail(chunks), Append(piece, Head(chunks)))

\* form_urlencoded::parse: the (name, value) pairs of the non-empty segments.
ParsePairs(query) ==
    LET segs == SelectSeq(SplitAmp(query, <<>>), LAMBDA seg : seg # <<>>)
    IN [i \in 1..Len(segs) |->
          LET eq == Instr(segs[i], "=", 1)
              cut == IF eq = 0 THEN Len(segs[i]) + 1 ELSE eq
          IN [name |-> Concat(Deserialize(SubSeq(segs[i], 1, cut - 1))),
              value |-> Deserialize(SubSeq(segs[i], cut + 1, Len(segs[i])))]]

\* request.query_string(): the text after the first '?'.
QueryString(url) ==
    LET q == Instr(url, "?", 1)
    IN IF q = 0 THEN <<>> ELSE SubSeq(url, q + 1, Len(url))

\* One Option<String> field of the derived Deserialize.
Field(pairs, name) ==
    LET hits == SelectSeq(pairs, LAMBDA p : p.name = name)
    IN IF hits = <<>> THEN Nothing ELSE Some(hits[1].value)

DuplicateField(pairs) ==
    \E i, j \in 1..Len(pairs) : i # j /\ pairs[i].name = pairs[j].name

\* web::Query<Filters>: the filter of a link, Nothing on a bad request.
FromUrl(url) ==
    LET pairs == ParsePairs(QueryString(url))
    IN IF DuplicateField(pairs) THEN Nothing
       ELSE Some(Filters(Field(pairs, "label"), Field(pairs, "year"),
                         Field(pairs, "domain"), Field(pairs, "address")))

\* Option<String> values of at most n characters.
CodecValues(n) == Opt(UNION {[1..k -> CodecChars] : k \in 0..n})

ValueLen(v) == Len(UnwrapOr(v, <<>>))

\* The filters of at most MaxFilterChars characters in all.
CodecFilters ==
    UNION {UNION {UNION {
        {Filters(l, y, d, a) :
            a \in CodecValues(MaxFilterChars - ValueLen(l) - ValueLen(y)
                                - ValueLen(d))} :
        d \in CodecValues(MaxFilterChars - ValueLen(l) - ValueLen(y))} :
        y \in CodecValues(MaxFilterChars - ValueLen(l))} :
        l \in CodecValues(MaxFilterChars)}

\* A link is built for a filter.
CodecToUrl ==
    /\ cPc = "encode"
    /\ cUrl' = ToUrl(cFilter)
    /\ cPc' = "decode"
    /\ UNCHANGED <<cFilter, cDecoded>>
    /\ UNCHANGED <<indexVars, reportVars>>

\* The link is followed and the handler extracts its Filters.
CodecFromUrl ==
    /\ cPc = "decode"
    /\ cDecoded' = FromUrl(cUrl)
    /\ cPc' = "done"
    /\ UNCHANGED <<cFilter, cUrl>>
    /\ UNCHANGED <<indexVars, reportVars>>

-----------------------------------------------------------------------------
InitStore ==
    /\ mail = <<>>
    /\ labels = {}
    /\ txActive = FALSE
    /\ txMail = <<>>
    /\ txLabels = {}
    /\ archive = <<>>
    /\ pos = 0
    /\ pending = <<>>
    /\ pc = "idle"
    /\ error = None
    /\ prev = Nothing
    /\ seen = Nothing
    /\ lastRun = None
    /\ svc = "down"
    /\ total_size = 0
    /\ poisoned = FALSE
    /\ lockHolder = None
    /\ reqPc = [r \in Requests |-> "idle"]
    /\ reqFilter = [r \in Requests |-> NoFilter]
    /\ view = [r \in Requests |-> Nothing]

Init ==
    /\ InitStore
    /\ cFilter = NoFilter
    /\ cUrl = <<>>
    /\ cDecoded = Nothing
    /\ cPc = "off"

Next ==
    \/ IndexStart
    \/ IndexDeleteMail
    \/ IndexDeleteLabels
    \/ IndexBegin
    \/ IndexNextMail
    \/ IndexInsertLabel
    \/ IndexCommit
    \/ IndexCrash
    \/ IndexExit
    \/ ReaderRead
    \/ ReportStart
    \/ ReportExit
    \/ \E r \in Requests : ReqArrive(r)
    \/ \E r \in Requests : ReqLock(r)
    \/ \E r \in Requests : ReqQuery(r)
    \/ \E r \in Requests : ReqRespond(r)
    \/ \E r \in Requests : ReqAborted(r)

Spec == Init /\ [][Next]_vars

-----------------------------------------------------------------------------
\* What the claims compare the store and the views with.

Content == Some(<<mail, labels>>)

\* The record carries the label / satisfies every present constraint.
Carries(i, label) == LabelRow(i, label) \in labels

Matches(i, f) ==
    /\ f.label # Nothing => Carries(i, Unwrap(f.label))
    /\ f.year # Nothing => YearOf(mail[i].date) = Unwrap(f.year)
    /\ f.domain # Nothing => DomainOf(mail[i].from_address) = Unwrap(f.domain)
    /\ f.address # Nothing => Concat(mail[i].from_address) = Unwrap(f.address)

Matching(f) == {i \in 1..Len(mail) : Matches(i, f)}

\* Sum of size over a set of records, each counted once.
RecordSum(S) == SetSum(S, [i \in S |-> mail[i].size])

\* The breakdown of a facet: one entry per value the matching records have.
LabelTotals(f) ==
    {[key |-> k, size |-> RecordSum({i \in Matching(f) : Carries(i, k)})] :
        k \in {l.label : l \in {x \in labels : x.mail_rowid \in Matching(f)}}}

FacetTotals(f, facetOf(_)) ==
    {[key |-> k, size |-> RecordSum({i \in Matching(f) : facetOf(i) = k})] :
        k \in {facetOf(i) : i \in Matching(f)}}

YearTotals(f) == FacetTotals(f, LAMBDA i : YearOf(mail[i].date))
DomainTotals(f) == FacetTotals(f, LAMBDA i : DomainOf(mail[i].from_address))
AddressTotals(f) == FacetTotals(f, LAMBDA i : Concat(mail[i].from_address))

Range(s) == {s[i] : i \in 1..Len(s)}

\* The list holds the entries of the breakdown, each once, up to the cap.
Lists(list, totals, cap) ==
    /\ Range(list) \subseteq totals
    /\ Len(list) = Min(cap, Cardinality(totals))
    /\ Cardinality(Range(list)) = Len(list)

Responding == {r \in Requests : reqPc[r] = "respond"}

\* Byte order of the facet values of the model.
KeyOrder ==
    <<"", "(unknown sender)", "1970", "2023", "2024", "A", "Important",
      "Inbox", "Unlabeled", "a@x.com", "b@x.com", "c@y.com", "x.com", "y.com">>

Rank(k) == CHOOSE i \in 1..Len(KeyOrder) : KeyOrder[i] = k

\* Descending by size, equal sizes ascending by key.
Ranked(list) ==
    \A i, j \in 1..Len(list) : i < j =>
        \/ list[i].size > list[j].size
        \/ /\ list[i].size = list[j].size
           /\ Rank(list[i].key) < Rank(list[j].key)

\* C1: when an index run fails, the committed content is the content that
\* was committed before the run started.
C1_FailureKeepsPrevious == pc = "failed" => Content = prev

\* C2: whatever a concurrent reader observed during an index run is the
\* complete previous content or the complete content the run committed.
C2_ReaderSeesOldOrNew ==
    seen # Nothing => seen = prev \/ (pc = "done" /\ seen = Content)

\* C3: on a store a successful index run produced, no request of the report
\* service panics, whatever its filter.
C3_NeverFails ==
    lastRun = "ok" => \A r \in Requests : reqPc[r] # "panicked"

\* C4: after a successful index run the report service starts with the sum
\* of all sizes as its grand total (0 for no records), and the filtered size
\* of every request is the sum of size over the distinct matching records.
C4_FilteredTotal ==
    /\ lastRun = "ok" /\ svc # "down" =>
          svc = "up" /\ total_size = RecordSum(1..Len(mail))
    /\ \A r \in Responding :
          Unwrap(view[r]).filtered_size = RecordSum(Matching(reqFilter[r]))

\* C5: every breakdown of a view is ordered by descending summed size and,
\* for equal sizes, by ascending facet value.
C5_TieBreak ==
    \A r \in Responding :
        /\ Ranked(Unwrap(view[r]).by_label)
        /\ Ranked(Unwrap(view[r]).by_year)
        /\ Ranked(Unwrap(view[r]).by_domain)
        /\ Ranked(Unwrap(view[r]).by_address)

\* C6: a view has the breakdown of a facet exactly when the filter does not
\* constrain the facet, and each entry of a breakdown is the sum of size over
\* the records that match the whole filter and have the entry's facet value,
\* a record counting in full for each of its labels.
C6_Breakdowns ==
    \A r \in Responding :
        LET f == reqFilter[r]
            v == Unwrap(view[r])
        IN /\ (v.by_label # <<>>) <=> (f.label = Nothing)
           /\ (v.by_year # <<>>) <=> (f.year = Nothing)
           /\ (v.by_domain # <<>>) <=> (f.domain = Nothing)
           /\ (v.by_address # <<>>) <=> (f.address = Nothing)
           /\ f.label = Nothing =>
                Lists(v.by_label, LabelTotals(f), Cardinality(LabelTotals(f)))
           /\ f.year = Nothing =>
                Lists(v.by_year, YearTotals(f), Cardinality(YearTotals(f)))
           /\ f.domain = Nothing => Lists(v.by_domain, DomainTotals(f), TopLimit)
           /\ f.address = Nothing =>
                Lists(v.by_address, AddressTotals(f), TopLimit)

\* A request pinned to label Inbox on a store with a record of two labels and
\* a record without Inbox: no label breakdown, the others count Inbox only.
C6_Witness ==
    \E r \in Responding :
        /\ reqFilter[r] = Filters(Some("Inbox"), Nothing, Nothing, Nothing)
        /\ Carries(1, "Inbox") /\ Carries(1, "Important")
        /\ Len(mail) = 2 /\ ~Carries(2, "Inbox")
        /\ Unwrap(view[r]).by_label = <<>>
        /\ Unwrap(view[r]).by_year = <<[key |-> "2024", size |-> 2]>>
        /\ Unwrap(view[r]).by_domain = <<[key |-> "x.com", size |-> 2]>>
        /\ Unwrap(view[r]).filtered_size < total_size

\* C7: a request that has arrived never has to wait for another request to
\* finish its queries.
C7_NoWaiting ==
    \A r \in Requests : reqPc[r] = "lock" => lockHolder = None

\* C8: an entry whose label header repeats a label is ingested: no index run
\* fails on the uniqueness of (message, label).
C8_DuplicateLabelsTolerated == error # "constraint"

\* C10: a request fails only if it would also fail as the first request on
\* the same store; earlier requests do not change its outcome.
C10_HistoryIndependent ==
    \A r \in Requests :
        reqPc[r] = "panicked" => FilteredSize(reqFilter[r]) = Nothing

-----------------------------------------------------------------------------
\* The round trip of a link, over every filter of the bound.

InitCodec ==
    /\ InitStore
    /\ cFilter \in CodecFilters
    /\ cUrl = <<>>
    /\ cDecoded = Nothing
    /\ cPc = "encode"

NextCodec ==
    \/ CodecToUrl
    \/ CodecFromUrl

SpecCodec == InitCodec /\ [][NextCodec]_vars

\* C9: decoding the link Filters::to_url builds for a filter gives back the
\* filter; an absent field is not in the link, and the fields of the link
\* are in the order label, year, domain, address.
C9_RoundTrip ==
    /\ cPc = "done" => cDecoded = Some(cFilter)
    /\ cPc \in {"decode", "done"} =>
          LET names == [i \in 1..Len(ParsePairs(QueryString(cUrl))) |->
                          ParsePairs(QueryString(cUrl))[i].name]
          IN names = SelectSeq(<<"label", "year", "domain", "address">>,
                               LAMBDA n : cFilter[n] # Nothing)

C9_Witness ==
    /\ cPc = "done"
    /\ cFilter.label = Some(<<"&", "=">>)
    /\ cFilter.year = Nothing
    /\ cFilter.address = Some(<<>>)
    /\ cDecoded = Some(cFilter)
====
